---- MODULE Spec2Model ----
(***************************************************************************)
(* Model of the BREMOR menu bot (src/main.py): the two update handlers     *)
(* start and button_callback, the helper send_menu, the menu files on disk *)
(* and the transport (Telegram) calls the handlers await.                  *)
(*                                                                         *)
(* The string literals of the source are Russian; TLA+ strings are ASCII,  *)
(* so every literal is written here in Latin transliteration, one literal  *)
(* of the source per definition, with the line it comes from.              *)
(***************************************************************************)
EXTENDS Integers, Sequences, FiniteSets, TLC

(***************************************************************************)
(* Bounds of the model.                                                    *)
(***************************************************************************)
\* Number of distinct modification times a menu file can take.
NumTimes == 2
\* Number of distinct messages an error that is no TelegramError can carry.
NumMsgs == 2
\* Number of distinct readings of the wall clock (datetime.now(), line 137).
NumNow == 1

(***************************************************************************)
(* Configuration and inputs.                                               *)
(***************************************************************************)
\* The concurrently running handler tasks (one task per update).
Tasks == {"t1", "t2"}

\* update.effective_user.id
Users == {42, 7}

\* query.data: the two keys of the buttons and one key no button carries.
Keys == {"breakfast", "lunch", "dinner"}

\* MENU_PATH = os.getenv("MENU_PATH")
MENU_PATH == "/menu"

\* Python's None, as file_map.get returns it for a key it does not hold.
None == "None"

\* The file names the directory MENU_PATH may hold.
FileNames == {"breakfast.xls", "lunch.xls"}

\* A missing file, as a value of fs.
Absent == 0 - 1

\* The i-th modification time, in seconds since 1970-01-01 00:00:00 local
\* time: 2024-01-01 09:00:00, 2024-02-10 09:00:45, 2024-03-21 09:01:30, ...
MTime(i) == 1704099600 + (i - 1) * (40 * 86400 + 45)

Times == {MTime(i) : i \in 1..NumTimes}

\* The readings of datetime.now(), as str() prints them.
Nows == {"2024-04-0" \o ToString(i) \o " 12:00:00.000000" : i \in 1..NumNow}

(***************************************************************************)
(* Exceptions.  An exception is a class and the text str(e) gives.  Ok is  *)
(* the outcome of a call that returns.                                     *)
(***************************************************************************)
Exc(cls, msg) == [cls |-> cls, msg |-> msg]

Ok == Exc("ok", "")

\* The class hierarchy: telegram.error.NetworkError derives from
\* TelegramError, which derives from Exception; FileNotFoundError (raised by
\* os.path.getmtime and open) derives from Exception through OSError.
Parent(cls) ==
    CASE cls = "NetworkError" -> "TelegramError"
      [] cls = "TelegramError" -> "Exception"
      [] cls = "FileNotFoundError" -> "OSError"
      [] cls = "OSError" -> "Exception"
      [] OTHER -> "BaseException"

\* isinstance(e, c), for the classes above (the hierarchy is 3 deep).
IsInstance(e, c) ==
    \/ e.cls = c
    \/ Parent(e.cls) = c
    \/ Parent(Parent(e.cls)) = c

\* What an awaited transport call (query.answer, reply_text, reply_document)
\* can raise: a connectivity failure, a failure reported by the Bot API, or
\* anything else.
TransportErrors ==
    {Exc("NetworkError", "Timed out"), Exc("TelegramError", "Forbidden")}
    \cup {Exc("RuntimeError", "boom" \o ToString(i)) : i \in 1..NumMsgs}

\* The outcomes of an awaited transport call.
Outcomes == {Ok} \cup TransportErrors

\* The FileNotFoundError os.path.getmtime and open raise for a missing file.
FileNotFoundError(path) ==
    Exc("FileNotFoundError",
        "[Errno 2] No such file or directory: '" \o path \o "'")

(***************************************************************************)
(* datetime.fromtimestamp(t).strftime('%d.%m.%Y %H:%M')                    *)
(***************************************************************************)
Pad2(n) == IF n < 10 THEN "0" \o ToString(n) ELSE ToString(n)

\* The civil date of a day number (days since 1970-01-01), proleptic
\* Gregorian calendar.
CivilFromDays(days) ==
    LET z   == days + 719468
        era == z \div 146097
        doe == z - era * 146097
        yoe == (doe - doe \div 1460 + doe \div 36524 - doe \div 146096) \div 365
        doy == doe - (365 * yoe + yoe \div 4 - yoe \div 100)
        mp  == (5 * doy + 2) \div 153
        d   == doy - (153 * mp + 2) \div 5 + 1
        m   == IF mp < 10 THEN mp + 3 ELSE mp - 9
        y   == yoe + era * 400 + (IF m <= 2 THEN 1 ELSE 0)
    IN  [year |-> y, month |-> m, day |-> d]

fromtimestamp(t) ==
    LET date == CivilFromDays(t \div 86400)
        secs == t % 86400
    IN  [year |-> date.year, month |-> date.month, day |-> date.day,
         hour |-> secs \div 3600, minute |-> (secs % 3600) \div 60,
         second |-> secs % 60]

\* strftime with the format '%Y-%m-%d %H:%M'.
strftime_iso(dt) ==
    ToString(dt.year) \o "-" \o Pad2(dt.month) \o "-" \o Pad2(dt.day)
    \o " " \o Pad2(dt.hour) \o ":" \o Pad2(dt.minute)

\* strftime('%d.%m.%Y %H:%M')
strftime(dt) ==
    Pad2(dt.day) \o "." \o Pad2(dt.month) \o "." \o ToString(dt.year)
    \o " " \o Pad2(dt.hour) \o ":" \o Pad2(dt.minute)

(***************************************************************************)
(* The literals of the source.                                             *)
(***************************************************************************)
\* keyboard with the two buttons in the other order.
keyboard_swapped ==
    << << [text |-> "Obed", callback_data |-> "lunch"],
          [text |-> "Zavtrak", callback_data |-> "breakfast"] >> >>

\* line 74: "Zavtrak" (breakfast), line 75: "Obed" (lunch)
keyboard ==
    << << [text |-> "Zavtrak", callback_data |-> "breakfast"],
          [text |-> "Obed", callback_data |-> "lunch"] >> >>

\* lines 82, 84
MENU_TEXT == "BREMOR menyu:"

\* line 140
TEXT_NOT_FOUND == "Fajl ne najden!"

\* line 155
TEXT_WRONG == "Chto-to poshlo ne tak!"

\* line 145
TEXT_NETWORK == "Oshibka seti. Proverte podklyuchenie k internetu."

\* line 148: f"Oshibka Telegram API: {e}"
TextTelegram(e) == "Oshibka Telegram API: " \o e.msg

\* line 151: f"Neizvestnaya oshibka: {e}"
TextUnknown(e) == "Neizvestnaya oshibka: " \o e.msg

\* line 135: f"Ot {creation_date}"
Caption(creation_date) == "Ot " \o creation_date

(***************************************************************************)
(* What a handler does is recorded, in order, in the trace of its task:    *)
(* every call that leaves the process (transport, file system) with its    *)
(* arguments and its outcome, and every log record.                        *)
(***************************************************************************)
Entry(op, a, b, kb, res) == [op |-> op, a |-> a, b |-> b, kb |-> kb, res |-> res]

\* await query.answer()
CallAnswer(res) == Entry("answer", "", "", <<>>, res)

\* os.path.exists(path) returning found
CallExists(path, found) ==
    Entry("exists", path, IF found THEN "True" ELSE "False", <<>>, Ok)

\* os.path.getmtime(path)
CallGetmtime(path, res) == Entry("getmtime", path, "", <<>>, res)

\* open(path, 'rb')
CallOpen(path, res) == Entry("open", path, "", <<>>, res)

\* await message.reply_document(document=file, caption=caption)
CallReplyDocument(path, caption, res) ==
    Entry("reply_document", path, caption, <<>>, res)

\* await message.reply_text(text)
CallReplyText(text, res) == Entry("reply_text", text, "", <<>>, res)

\* await message.reply_text(text, reply_markup=InlineKeyboardMarkup(kb))
CallReplyMenu(text, kb, res) == Entry("reply_text", text, "", kb, res)

\* logger.info / warning / error / exception (exception logs at level ERROR
\* with the traceback)
Log(level, text) == Entry("log." \o level, text, "", <<>>, Ok)

IsLog(x) == x.op \in {"log.info", "log.warning", "log.error", "log.exception"}

IsReply(x) == x.op \in {"reply_text", "reply_document"}

IsMenu(x) == x.op = "reply_text" /\ x.kb # <<>>

IsText(x) == x.op = "reply_text" /\ x.kb = <<>>

IsDocument(x) == x.op = "reply_document"

(***************************************************************************)
(* State.                                                                  *)
(***************************************************************************)
VARIABLES
    fs,     \* file name -> modification time of the file, or Absent
    pc,     \* task -> the place of the task in its handler
    event,  \* task -> the update the task handles
    local,  \* task -> the local variables of the handler
    trace   \* task -> what the handler of the task did, in order

vars == <<fs, pc, event, local, trace>>

\* An update: /start (update.message is None when the command arrives as an
\* edited message) or a button press (update.callback_query carries data and
\* the message the keyboard hangs on; update.message is None).
StartUpdates ==
    [type : {"start"}, uid : Users, data : {""}, message : BOOLEAN]

CallbackUpdates ==
    [type : {"callback"}, uid : Users, data : Keys, message : {FALSE}]

NoUpdate == [type |-> "none", uid |-> 0, data |-> "", message |-> FALSE]

\* The locals of a handler, before it sets them.  Besides the variables of
\* the source: opened is the modification time of the file as open found
\* it, sent the modification time of the content reply_document uploaded,
\* now the reading of datetime.now() of line 137.
NoLocals ==
    [file_name |-> None, file_path |-> "", modification_time |-> Absent,
     creation_date |-> "", query_message |-> FALSE, exc |-> Ok,
     opened |-> Absent, sent |-> Absent, now |-> ""]

Init ==
    /\ fs \in [FileNames -> {Absent} \cup Times]
    /\ pc = [t \in Tasks |-> "idle"]
    /\ event = [t \in Tasks |-> NoUpdate]
    /\ local = [t \in Tasks |-> NoLocals]
    /\ trace = [t \in Tasks |-> <<>>]

Finished(t) == pc[t] \in {"done", "crashed"}

(***************************************************************************)
(* The file system: another process writes (creates, replaces, touches) or *)
(* removes a menu file at any moment.                                      *)
(***************************************************************************)
FsWrite(f, m) ==
    /\ fs[f] # m
    /\ fs' = [fs EXCEPT ![f] = m]
    /\ UNCHANGED <<pc, event, local, trace>>

FsRemove(f) ==
    /\ fs[f] # Absent
    /\ fs' = [fs EXCEPT ![f] = Absent]
    /\ UNCHANGED <<pc, event, local, trace>>

(***************************************************************************)
(* Dispatch (lines 171-172): the application starts one task per update,   *)
(* start for a /start command and button_callback for a callback query.    *)
(***************************************************************************)
\* EntryPc with the acknowledgment left out of button_callback.
EntryPcNoAnswer(e) == IF e.type = "start" THEN "start" ELSE "lookup"

\* The first statement of the handler of an update.
EntryPc(e) == IF e.type = "start" THEN "start" ELSE "answer"

Dispatch(t, e) ==
    /\ pc[t] = "idle"
    /\ pc' = [pc EXCEPT ![t] = EntryPc(e)]
    /\ event' = [event EXCEPT ![t] = e]
    /\ UNCHANGED <<fs, local, trace>>

\* A handler that returned or raised is over; the next update is handled by
\* a fresh call that shares nothing with it.
Retire(t) ==
    /\ Finished(t)
    /\ pc' = [pc EXCEPT ![t] = "idle"]
    /\ event' = [event EXCEPT ![t] = NoUpdate]
    /\ local' = [local EXCEPT ![t] = NoLocals]
    /\ trace' = [trace EXCEPT ![t] = <<>>]
    /\ UNCHANGED fs

(***************************************************************************)
(* start (lines 94-103)                                                    *)
(***************************************************************************)
\* line 102: f"Polzovatel s ID {update.effective_user.id} zapustil /start."
StartLog(e) ==
    Log("info", "Polzovatel s ID " \o ToString(e.uid) \o " zapustil /start.")

Start(t) ==
    /\ pc[t] = "start"
    /\ trace' = [trace EXCEPT ![t] = Append(@, StartLog(event[t]))]
    /\ local' = [local EXCEPT ![t].query_message = FALSE]
    /\ pc' = [pc EXCEPT ![t] = "send_menu"]
    /\ UNCHANGED <<fs, event>>

(***************************************************************************)
(* send_menu (lines 63-90)                                                 *)
(***************************************************************************)
\* lines 81-84: whether there is a message to reply to
MenuTarget(e, query_message) == query_message \/ e.message

\* SendMenuExcept with the failure also reported to the user by a text reply,
\* as the except clauses of button_callback do.
SendMenuExceptReply(r) ==
    IF r = Ok THEN <<>>
    ELSE << Log("error", "Oshibka seti. NetworkError"),
            CallReplyText(TEXT_NETWORK, Ok) >>

\* lines 85-90: the except clauses of send_menu, tried in order
SendMenuExcept(r) ==
    IF r = Ok THEN <<>>
    ELSE IF IsInstance(r, "NetworkError")
        THEN << Log("error", "Oshibka seti. NetworkError") >>
    ELSE IF IsInstance(r, "TelegramError")
        THEN << Log("error", "Oshibka Telegram API: " \o r.msg) >>
    ELSE << Log("exception", "Neizvestnaya oshibka: " \o r.msg) >>

\* SendMenuEffects with the prompt sent a second time after a failure.
SendMenuEffectsRetry(r) ==
    IF r = Ok
    THEN << CallReplyMenu(MENU_TEXT, keyboard, r) >>
    ELSE << CallReplyMenu(MENU_TEXT, keyboard, r),
            Log("error", "Oshibka seti. NetworkError"),
            CallReplyMenu(MENU_TEXT, keyboard, Ok) >>

\* lines 72-90 for one outcome r of the reply_text call
SendMenuEffects(r) ==
    << CallReplyMenu(MENU_TEXT, keyboard, r) >> \o SendMenuExcept(r)

SendMenu(t) ==
    /\ pc[t] = "send_menu"
    /\ IF MenuTarget(event[t], local[t].query_message)
       THEN \E r \in Outcomes :
                trace' = [trace EXCEPT ![t] = @ \o SendMenuEffects(r)]
       ELSE UNCHANGED trace
    /\ pc' = [pc EXCEPT ![t] = "done"]
    /\ UNCHANGED <<fs, event, local>>

(***************************************************************************)
(* button_callback (lines 107-155)                                         *)
(***************************************************************************)
\* Where an exception that no except clause of the handler catches leaves
\* the task: the exception goes to the application, the handler is over.
Raise(t, e, entries) ==
    /\ trace' = [trace EXCEPT ![t] = @ \o entries]
    /\ local' = [local EXCEPT ![t].exc = e]
    /\ pc' = [pc EXCEPT ![t] = "crashed"]

\* line 118: await query.answer(); it stands outside every try
Answer(t) ==
    /\ pc[t] = "answer"
    /\ \E r \in Outcomes :
        IF r = Ok
        THEN /\ trace' = [trace EXCEPT ![t] = Append(@, CallAnswer(r))]
             /\ pc' = [pc EXCEPT ![t] = "lookup"]
             /\ UNCHANGED local
        ELSE Raise(t, r, << CallAnswer(r) >>)
    /\ UNCHANGED <<fs, event>>

\* file_map_get with a default file for the keys the map does not hold.
file_map_get_default(data) ==
    CASE data = "breakfast" -> "breakfast.xls"
      [] OTHER -> "lunch.xls"

\* file_map_get with the key of the second entry misspelt.
file_map_get_typo(data) ==
    CASE data = "breakfast" -> "breakfast.xls"
      [] data = "launch" -> "lunch.xls"
      [] OTHER -> None

\* file_map_get with the query kept in a module-level variable that the
\* handler started last overwrites: the key looked up is the one of the
\* latest update, not the one of the update being handled.
file_map_get_shared(data) ==
    LET latest == IF event["t2"].type = "callback"
                  THEN event["t2"].data ELSE data
    IN  CASE latest = "breakfast" -> "breakfast.xls"
          [] latest = "lunch" -> "lunch.xls"
          [] OTHER -> None

\* lines 120-124: file_map.get(query.data)
file_map_get(data) ==
    CASE data = "breakfast" -> "breakfast.xls"
      [] data = "lunch" -> "lunch.xls"
      [] OTHER -> None

\* path_join as plain concatenation (MENU_PATH + file_name).
path_join_concat(a, b) == a \o b

\* os.path.join(a, b), for a directory a without a trailing separator and a
\* relative name b
path_join(a, b) == a \o "/" \o b

\* lines 124-127 and 152: the branch on file_name
Lookup(t) ==
    /\ pc[t] = "lookup"
    /\ LET file_name == file_map_get(event[t].data)
       IN  IF file_name # None
           THEN /\ local' = [local EXCEPT
                        ![t].file_name = file_name,
                        ![t].file_path = path_join(MENU_PATH, file_name)]
                /\ pc' = [pc EXCEPT ![t] = "exists"]
           ELSE /\ pc' = [pc EXCEPT ![t] = "unknown"]
                /\ UNCHANGED local
    /\ UNCHANGED <<fs, event, trace>>

\* line 139: f"Fajl {file_name} ne najden! (zapros ot {user.id})"
NotFoundLog(file_name, uid) ==
    Log("warning",
        "Fajl " \o file_name \o " ne najden! (zapros ot " \o ToString(uid) \o ")")

\* lines 129, 138-139: os.path.exists(file_path) and, when it is false, the
\* warning (the reply of line 140 is awaited next)
Exists(t) ==
    /\ pc[t] = "exists"
    /\ LET l == local[t]
       IN  IF fs[l.file_name] # Absent
           THEN /\ trace' = [trace EXCEPT
                        ![t] = Append(@, CallExists(l.file_path, TRUE))]
                /\ pc' = [pc EXCEPT ![t] = "getmtime"]
           ELSE /\ trace' = [trace EXCEPT ![t] = @ \o
                        << CallExists(l.file_path, FALSE),
                           NotFoundLog(l.file_name, event[t].uid) >>]
                /\ pc' = [pc EXCEPT ![t] = "reply_notfound"]
    /\ UNCHANGED <<fs, event, local>>

\* lines 130-131: os.path.getmtime(file_path) and the formatting of it
Getmtime(t) ==
    /\ pc[t] = "getmtime"
    /\ LET l == local[t]
       IN  IF fs[l.file_name] # Absent
           THEN /\ trace' = [trace EXCEPT
                        ![t] = Append(@, CallGetmtime(l.file_path, Ok))]
                /\ local' = [local EXCEPT
                        ![t].modification_time = fs[l.file_name],
                        ![t].creation_date =
                            strftime(fromtimestamp(fs[l.file_name]))]
                /\ pc' = [pc EXCEPT ![t] = "open"]
           ELSE /\ trace' = [trace EXCEPT ![t] = Append(@,
                        CallGetmtime(l.file_path, FileNotFoundError(l.file_path)))]
                /\ local' = [local EXCEPT
                        ![t].exc = FileNotFoundError(l.file_path)]
                /\ pc' = [pc EXCEPT ![t] = "except"]
    /\ UNCHANGED <<fs, event>>

\* line 132: open(file_path, 'rb')
Open(t) ==
    /\ pc[t] = "open"
    /\ LET l == local[t]
       IN  IF fs[l.file_name] # Absent
           THEN /\ trace' = [trace EXCEPT
                        ![t] = Append(@, CallOpen(l.file_path, Ok))]
                /\ pc' = [pc EXCEPT ![t] = "reply_document"]
                /\ local' = [local EXCEPT ![t].opened = fs[l.file_name]]
           ELSE /\ trace' = [trace EXCEPT ![t] = Append(@,
                        CallOpen(l.file_path, FileNotFoundError(l.file_path)))]
                /\ local' = [local EXCEPT
                        ![t].exc = FileNotFoundError(l.file_path)]
                /\ pc' = [pc EXCEPT ![t] = "except"]
    /\ UNCHANGED <<fs, event>>

\* line 137: f"Fajl {file_name} otpravlen polzovatelyu ID {user.id} {now}."
SentLog(file_name, uid, now) ==
    Log("info", "Fajl " \o file_name \o " otpravlen polzovatelyu ID "
                \o ToString(uid) \o " " \o now \o ".")

\* AfterReply with send_menu left out of the branch.
AfterReplyNoPrompt(r) == IF r = Ok THEN "done" ELSE "except"

\* Where the try block of lines 128-142 goes after an awaited reply with
\* outcome r: on to send_menu (line 142), or to the except clauses.
AfterReply(r) == IF r = Ok THEN "send_menu" ELSE "except"

\* The content reply_document reads from the open file: the content the
\* file had when it was opened (the file was replaced since, or not touched)
\* or the content it has now (the file was rewritten in place since).
Readable(l) == {l.opened} \cup ({fs[l.file_name]} \ {Absent})

\* lines 133-137: await query.message.reply_document(...) and the info record
ReplyDocument(t) ==
    /\ pc[t] = "reply_document"
    /\ LET l == local[t]
       IN  \E r \in Outcomes :
            /\ IF r = Ok
               THEN \E now \in Nows, content \in Readable(l) :
                    /\ trace' = [trace EXCEPT ![t] = @ \o
                            << CallReplyDocument(l.file_path,
                                                 Caption(l.creation_date), r),
                               SentLog(l.file_name, event[t].uid, now) >>]
                    /\ local' = [local EXCEPT
                            ![t].exc = r, ![t].query_message = TRUE,
                            ![t].sent = content, ![t].now = now]
               ELSE /\ trace' = [trace EXCEPT ![t] = Append(@,
                            CallReplyDocument(l.file_path,
                                              Caption(l.creation_date), r))]
                    /\ local' = [local EXCEPT
                            ![t].exc = r, ![t].query_message = TRUE]
            /\ pc' = [pc EXCEPT ![t] = AfterReply(r)]
    /\ UNCHANGED <<fs, event>>

\* line 140: await query.message.reply_text("Fajl ne najden!")
ReplyNotFound(t) ==
    /\ pc[t] = "reply_notfound"
    /\ \E r \in Outcomes :
        /\ trace' = [trace EXCEPT
                ![t] = Append(@, CallReplyText(TEXT_NOT_FOUND, r))]
        /\ local' = [local EXCEPT ![t].exc = r, ![t].query_message = TRUE]
        /\ pc' = [pc EXCEPT ![t] = AfterReply(r)]
    /\ UNCHANGED <<fs, event>>

\* Classify with the except clauses in the wrong order: TelegramError, the
\* base class, tried before NetworkError.
ClassifyTelegramFirst(e) ==
    IF IsInstance(e, "TelegramError") THEN "ProtocolError"
    ELSE IF IsInstance(e, "NetworkError") THEN "Network"
    ELSE "Unknown"

\* lines 143-149: the except clauses of button_callback, tried in order
Classify(e) ==
    IF IsInstance(e, "NetworkError") THEN "Network"
    ELSE IF IsInstance(e, "TelegramError") THEN "ProtocolError"
    ELSE "Unknown"

\* lines 144, 147, 150: the log record of the except clause taken
ExceptLog(e) ==
    CASE Classify(e) = "Network" ->
            Log("error", "Oshibka seti pri otpravke dokumenta.")
      [] Classify(e) = "ProtocolError" ->
            Log("error", "Oshibka Telegram API: " \o e.msg)
      [] OTHER ->
            Log("exception",
                "Neizvestnaya oshibka pri otpravke dokumenta: " \o e.msg)

\* lines 145, 148, 151: the text the except clause taken replies with
ExceptText(e) ==
    CASE Classify(e) = "Network" -> TEXT_NETWORK
      [] Classify(e) = "ProtocolError" -> TextTelegram(e)
      [] OTHER -> TextUnknown(e)

\* lines 143-151: the except clause logs, then awaits reply_text; an
\* exception of that reply_text is raised inside an except clause, where no
\* clause of the same try catches it
Except(t) ==
    /\ pc[t] = "except"
    /\ LET e == local[t].exc
       IN  \E r \in Outcomes :
            IF r = Ok
            THEN /\ trace' = [trace EXCEPT ![t] = @ \o
                        << ExceptLog(e), CallReplyText(ExceptText(e), r) >>]
                 /\ pc' = [pc EXCEPT ![t] = "done"]
                 /\ UNCHANGED local
            ELSE Raise(t, r, << ExceptLog(e), CallReplyText(ExceptText(e), r) >>)
    /\ UNCHANGED <<fs, event>>

\* line 154: f"Nekorrektnyj callback_data: {query.data} ot {user.id}"
UnknownLog(data, uid) ==
    Log("warning",
        "Nekorrektnyj callback_data: " \o data \o " ot " \o ToString(uid))

\* lines 152-155: the else branch; its reply_text stands outside every try
Unknown(t) ==
    /\ pc[t] = "unknown"
    /\ LET entries(r) == << UnknownLog(event[t].data, event[t].uid),
                            CallReplyText(TEXT_WRONG, r) >>
       IN  \E r \in Outcomes :
            IF r = Ok
            THEN /\ trace' = [trace EXCEPT ![t] = @ \o entries(r)]
                 /\ pc' = [pc EXCEPT ![t] = "done"]
                 /\ UNCHANGED local
            ELSE Raise(t, r, entries(r))
    /\ UNCHANGED <<fs, event>>

(***************************************************************************)
(* The specification.                                                      *)
(***************************************************************************)
\* One step of the task t.
Handle(t) ==
    \/ Retire(t)
    \/ Start(t)
    \/ SendMenu(t)
    \/ Answer(t)
    \/ Lookup(t)
    \/ Exists(t)
    \/ Getmtime(t)
    \/ Open(t)
    \/ ReplyDocument(t)
    \/ ReplyNotFound(t)
    \/ Except(t)
    \/ Unknown(t)

\* One step of another process on the menu directory.
Environment ==
    \/ \E f \in FileNames, m \in Times : FsWrite(f, m)
    \/ \E f \in FileNames : FsRemove(f)

\* One update at a time: the updates of any user, handled by one task.
Next ==
    \/ Environment
    \/ \E e \in StartUpdates \cup CallbackUpdates : Dispatch("t1", e)
    \/ Handle("t1")

Spec == Init /\ [][Next]_vars

\* The event loop runs a handler that can take a step: every awaited call
\* returns or raises, and the statements between two awaits run through.
SpecFair == Spec /\ WF_vars(Handle("t1"))

\* Two updates of one user handled concurrently.
ConcurrentUpdates == {e \in StartUpdates \cup CallbackUpdates : e.uid = 42}

NextConcurrent ==
    \/ Environment
    \/ \E t \in Tasks, e \in ConcurrentUpdates : Dispatch(t, e)
    \/ \E t \in Tasks : Handle(t)

SpecConcurrent == Init /\ [][NextConcurrent]_vars

\* Updates handled concurrently while no other process touches the menu
\* files: the updates of one user in one task, of any user in the other.
IndependentUpdates(t) ==
    IF t = "t1" THEN ConcurrentUpdates ELSE StartUpdates \cup CallbackUpdates

NextIndependent ==
    \/ \E t \in Tasks : \E e \in IndependentUpdates(t) : Dispatch(t, e)
    \/ \E t \in Tasks : Handle(t)

SpecIndependent == Init /\ [][NextIndependent]_vars

(***************************************************************************)
(* Reading a trace.                                                        *)
(***************************************************************************)
IsFileCall(x) == x.op \in {"exists", "getmtime", "open"}

\* The places of a trace that hold a menu prompt, a plain text reply, a
\* document reply, any reply, a log record.
Menus(tr) == {i \in DOMAIN tr : IsMenu(tr[i])}

Texts(tr) == {i \in DOMAIN tr : IsText(tr[i])}

Documents(tr) == {i \in DOMAIN tr : IsDocument(tr[i])}

Replies(tr) == {i \in DOMAIN tr : IsReply(tr[i])}

Logs(tr) == {i \in DOMAIN tr : IsLog(tr[i])}

\* The first place of a non-empty set of places.
First(S) == CHOOSE i \in S : \A j \in S : i <= j

IsCallback(t) == event[t].type = "callback"

IsStart(t) == event[t].type = "start"

\* query.answer() returned: the handler went on to the dispatch on the key.
AckReturned(t) == \E i \in DOMAIN trace[t] : trace[t][i] = CallAnswer(Ok)

(***************************************************************************)
(* C1.  In the handling of every callback, with a known or an unknown key, *)
(* the acknowledgment call has been made before any file existence check,  *)
(* file read or reply: every such entry of the trace stands after the      *)
(* entry of query.answer().                                                *)
(***************************************************************************)
C1_AckBeforeIO ==
    \A t \in Tasks : IsCallback(t) =>
        \A i \in DOMAIN trace[t] :
            (IsFileCall(trace[t][i]) \/ IsReply(trace[t][i])) =>
                \E j \in 1..(i - 1) : trace[t][j].op = "answer"

\* A callback was acknowledged, then checked its file and sent the document.
C1_Witness ==
    \E t \in Tasks :
        /\ IsCallback(t) /\ pc[t] = "done"
        /\ trace[t][1] = CallAnswer(Ok)
        /\ Documents(trace[t]) # {}
        /\ \E i \in DOMAIN trace[t] : IsFileCall(trace[t][i])

(***************************************************************************)
(* C2.  A callback whose raw key is neither "breakfast" nor "lunch", once  *)
(* acknowledged, makes exactly one plain text reply, "Chto-to poshlo ne    *)
(* tak!", no document reply and no menu prompt, writes exactly one log     *)
(* record, a warning that carries the raw key and the user id, and looks   *)
(* up no file.                                                             *)
(***************************************************************************)
C2_UnknownKey ==
    \A t \in Tasks :
        ( /\ IsCallback(t)
          /\ event[t].data \notin {"breakfast", "lunch"}
          /\ AckReturned(t)
          /\ Finished(t) ) =>
        LET tr == trace[t]
        IN  /\ Cardinality(Texts(tr)) = 1
            /\ \A i \in Texts(tr) : tr[i].a = "Chto-to poshlo ne tak!"
            /\ Documents(tr) = {}
            /\ Menus(tr) = {}
            /\ Cardinality(Logs(tr)) = 1
            /\ \A i \in Logs(tr) :
                /\ tr[i].op = "log.warning"
                /\ tr[i].a = "Nekorrektnyj callback_data: " \o event[t].data
                             \o " ot " \o ToString(event[t].uid)
            /\ \A i \in DOMAIN tr : ~IsFileCall(tr[i])

\* A callback with the key "dinner" was handled to its end.
C2_Witness ==
    \E t \in Tasks :
        /\ IsCallback(t) /\ event[t].data = "dinner" /\ pc[t] = "done"
        /\ Texts(trace[t]) # {}

(***************************************************************************)
(* C3.  A callback with a known key whose file os.path.exists reports      *)
(* missing sends no document; its first reply is the text "Fajl ne         *)
(* najden!", and when that reply is delivered it is the only text reply    *)
(* and exactly one menu prompt is sent, after it.                          *)
(***************************************************************************)
C3_NotFound ==
    \A t \in Tasks :
        ( /\ IsCallback(t)
          /\ Finished(t)
          /\ \E i \in DOMAIN trace[t] :
                trace[t][i].op = "exists" /\ trace[t][i].b = "False" ) =>
        LET tr == trace[t]
        IN  /\ event[t].data \in {"breakfast", "lunch"}
            /\ Documents(tr) = {}
            /\ Replies(tr) # {}
            /\ IsText(tr[First(Replies(tr))])
            /\ tr[First(Replies(tr))].a = "Fajl ne najden!"
            /\ tr[First(Replies(tr))].res = Ok =>
                /\ Cardinality(Texts(tr)) = 1
                /\ Cardinality(Menus(tr)) = 1
                /\ \A i \in Menus(tr) : i > First(Replies(tr))

\* The file was missing, the text was delivered and the prompt was sent.
C3_Witness ==
    \E t \in Tasks :
        /\ IsCallback(t) /\ pc[t] = "done"
        /\ \E i \in DOMAIN trace[t] :
                trace[t][i].op = "exists" /\ trace[t][i].b = "False"
        /\ \E i \in Texts(trace[t]) : trace[t][i].res = Ok
        /\ Menus(trace[t]) # {}

(***************************************************************************)
(* C4.  A callback with a known key whose file is there (it exists when    *)
(* checked and is still there when opened) makes exactly one document      *)
(* reply, for the file MENU_PATH/<key>.xls, and at most one menu prompt:   *)
(* exactly one, after the document, when the document send returned, and   *)
(* none when it raised.                                                    *)
(***************************************************************************)
C4_Found ==
    \A t \in Tasks :
        ( /\ IsCallback(t)
          /\ Finished(t)
          /\ \E i \in DOMAIN trace[t] :
                trace[t][i].op = "open" /\ trace[t][i].res = Ok ) =>
        LET tr == trace[t]
            d  == First(Documents(tr))
        IN  /\ event[t].data \in {"breakfast", "lunch"}
            /\ Cardinality(Documents(tr)) = 1
            /\ tr[d].a = "/menu/" \o event[t].data \o ".xls"
            /\ Cardinality(Menus(tr)) = (IF tr[d].res = Ok THEN 1 ELSE 0)
            /\ \A i \in Menus(tr) : i > d

\* The document was delivered and the prompt was sent after it.
C4_Witness ==
    \E t \in Tasks :
        /\ IsCallback(t) /\ pc[t] = "done"
        /\ \E i \in Documents(trace[t]) : trace[t][i].res = Ok
        /\ \E i \in Menus(trace[t]) : trace[t][i].res = Ok

(***************************************************************************)
(* C5.  Every exception raised by a call of steps 2-4 of a callback (the   *)
(* file calls, the unknown-key reply, the not-found reply, the document    *)
(* send, the re-prompt send) is caught and logged at error level, a text   *)
(* reply reports it to the user, and no menu prompt follows it.            *)
(***************************************************************************)
\* A call of steps 2-4: not the acknowledgment, not a log record, and not
\* the text reply by which an except clause reports a failure.
IsStepCall(x) ==
    /\ x.op # "answer"
    /\ ~IsLog(x)
    /\ IsText(x) => x.a \in {"Chto-to poshlo ne tak!", "Fajl ne najden!"}

C5_AllCaughtAndReported ==
    \A t \in Tasks : (IsCallback(t) /\ Finished(t)) =>
        LET tr == trace[t]
        IN  \A i \in DOMAIN tr : (IsStepCall(tr[i]) /\ tr[i].res # Ok) =>
                /\ \E j \in Logs(tr) :
                        j > i /\ tr[j].op \in {"log.error", "log.exception"}
                /\ \E j \in Texts(tr) : j > i
                /\ \A j \in Menus(tr) : j <= i

(***************************************************************************)
(* C6.  Whichever outward call of a handler fails, and with whatever       *)
(* error, the handler finishes normally: no exception leaves it.           *)
(***************************************************************************)
C6_NoExceptionEscapes == \A t \in Tasks : pc[t] # "crashed"

(***************************************************************************)
(* C7.  When the document send raises a NetworkError, the failure is       *)
(* handled as a connectivity failure and as nothing else: the handler      *)
(* writes exactly one error-level log record, the one of the NetworkError  *)
(* clause, makes exactly one text reply, the connectivity message, and     *)
(* sends no menu prompt.                                                   *)
(***************************************************************************)
C7_NetworkOnDocument ==
    \A t \in Tasks :
        ( /\ IsCallback(t)
          /\ Finished(t)
          /\ \E d \in Documents(trace[t]) :
                trace[t][d].res.cls = "NetworkError" ) =>
        LET tr == trace[t]
            d  == First(Documents(tr))
            errors == {j \in Logs(tr) :
                        tr[j].op \in {"log.error", "log.exception"}}
        IN  /\ Cardinality(errors) = 1
            /\ \A j \in errors :
                /\ j > d
                /\ tr[j] = Log("error", "Oshibka seti pri otpravke dokumenta.")
            /\ Cardinality(Texts(tr)) = 1
            /\ \A j \in Texts(tr) :
                /\ j > d
                /\ tr[j].a = "Oshibka seti. Proverte podklyuchenie k internetu."
            /\ Menus(tr) = {}

\* The document send raised a NetworkError and the user was told so.
C7_Witness ==
    \E t \in Tasks :
        /\ IsCallback(t) /\ pc[t] = "done"
        /\ \E d \in Documents(trace[t]) : trace[t][d].res.cls = "NetworkError"
        /\ \E j \in Texts(trace[t]) : trace[t][j].res = Ok

(***************************************************************************)
(* C8.  Two handlings of the same callback that did the same up to a call  *)
(* that failed with an unrecognized error (no NetworkError, no             *)
(* TelegramError), and that differ at that call in the message of the      *)
(* error only, send the same text replies after it.                        *)
(***************************************************************************)
IsUnknownFailure(e) == e.cls \notin {"ok", "NetworkError", "TelegramError"}

\* The text replies of a trace after place i.
TextsAfter(tr, i) == {<<j, tr[j].a>> : j \in {k \in Texts(tr) : k > i}}

C8_UnknownTextIndependent ==
    \A t, u \in Tasks :
        (event[t] = event[u] /\ Finished(t) /\ Finished(u)) =>
        \A i \in DOMAIN trace[t] \cap DOMAIN trace[u] :
            ( /\ SubSeq(trace[t], 1, i - 1) = SubSeq(trace[u], 1, i - 1)
              /\ IsUnknownFailure(trace[t][i].res)
              /\ IsUnknownFailure(trace[u][i].res)
              /\ [trace[t][i] EXCEPT !.res.msg = ""]
                    = [trace[u][i] EXCEPT !.res.msg = ""] ) =>
            TextsAfter(trace[t], i) = TextsAfter(trace[u], i)

(***************************************************************************)
(* C9.  Every start command first logs the user id and then sends exactly  *)
(* one menu prompt, with the options Breakfast -> "breakfast" and          *)
(* Lunch -> "lunch", and makes no other reply.                             *)
(***************************************************************************)
C9_StartPrompts ==
    \A t \in Tasks : (IsStart(t) /\ Finished(t)) =>
        LET tr == trace[t]
        IN  /\ Len(tr) >= 2
            /\ tr[1] = Log("info", "Polzovatel s ID " \o ToString(event[t].uid)
                                   \o " zapustil /start.")
            /\ Cardinality(Menus(tr)) = 1
            /\ \A m \in Menus(tr) :
                tr[m].kb = << << [text |-> "Zavtrak", callback_data |-> "breakfast"],
                                 [text |-> "Obed", callback_data |-> "lunch"] >> >>
            /\ Replies(tr) = Menus(tr)

(***************************************************************************)
(* C10.  When the menu prompt of a start command fails to be sent, with    *)
(* whatever error, the handler writes exactly one log record for it, of    *)
(* the class of the error, makes no reply besides the failed prompt, and   *)
(* returns normally.                                                       *)
(***************************************************************************)
C10_StartPromptFailure ==
    \A t \in Tasks : IsStart(t) =>
        /\ pc[t] # "crashed"
        /\ (Finished(t) /\ \E m \in Menus(trace[t]) : trace[t][m].res # Ok) =>
            LET tr == trace[t]
                m  == First(Menus(tr))
                e  == tr[m].res
                after == {j \in Logs(tr) : j > m}
            IN  /\ pc[t] = "done"
                /\ Replies(tr) = {m}
                /\ Cardinality(after) = 1
                /\ \A j \in after :
                    CASE e.cls = "NetworkError" ->
                            tr[j] = Log("error", "Oshibka seti. NetworkError")
                      [] e.cls = "TelegramError" ->
                            tr[j] = Log("error", "Oshibka Telegram API: " \o e.msg)
                      [] OTHER ->
                            tr[j] = Log("exception",
                                        "Neizvestnaya oshibka: " \o e.msg)

\* The prompt of a start command failed with an unrecognized error and the
\* handler returned.
C10_Witness ==
    \E t \in Tasks :
        /\ IsStart(t) /\ pc[t] = "done"
        /\ \E m \in Menus(trace[t]) : IsUnknownFailure(trace[t][m].res)

(***************************************************************************)
(* C11.  Whenever a callback finds its file missing (os.path.exists says   *)
(* so, or os.path.getmtime or open finds the file gone after the check),   *)
(* the next reply of the handler is the direct text "Fajl ne najden!",     *)
(* never the message of an except clause.                                  *)
(***************************************************************************)
\* The call at this entry found the file missing.
FoundAbsent(x) ==
    \/ x.op = "exists" /\ x.b = "False"
    \/ x.op \in {"getmtime", "open"} /\ x.res.cls = "FileNotFoundError"

C11_AbsenceIsNoFailure ==
    \A t \in Tasks : (IsCallback(t) /\ Finished(t)) =>
        LET tr == trace[t]
        IN  \A i \in DOMAIN tr : FoundAbsent(tr[i]) =>
                LET later == {j \in Replies(tr) : j > i}
                IN  /\ later # {}
                    /\ IsText(tr[First(later)])
                    /\ tr[First(later)].a = "Fajl ne najden!"

(***************************************************************************)
(* C12.  The modification time a document reply states in its caption is   *)
(* the modification time of the file content that reply sent, also when    *)
(* another process replaces or rewrites the file while the callback is     *)
(* handled.                                                                *)
(***************************************************************************)
C12_CaptionOfContentSent ==
    \A t \in Tasks : (IsCallback(t) /\ Finished(t)) =>
        \A d \in Documents(trace[t]) : trace[t][d].res = Ok =>
            trace[t][d].b = "Ot " \o strftime(fromtimestamp(local[t].sent))

(***************************************************************************)
(* C13.  With the menu files fixed, what a handler does for an update is   *)
(* decided by the update and by the outcomes of the handler's own calls:   *)
(* two handlings of equal updates whose calls had the same outcomes (and   *)
(* that read the same clock) leave the same sequence of replies and log    *)
(* records, however each was interleaved with the handlers of other        *)
(* updates, of the same or another user, failed ones included.             *)
(***************************************************************************)
\* The outcomes of the calls of the task, in order.
CallOutcomes(t) == [i \in DOMAIN trace[t] |-> trace[t][i].res]

C13_Independent ==
    \A t, u \in Tasks :
        ( /\ event[t] = event[u]
          /\ CallOutcomes(t) = CallOutcomes(u)
          /\ local[t].now = local[u].now ) =>
        trace[t] = trace[u]

\* Two handlings of the same "lunch" callback both sent the document, each
\* interleaved with other handlers before.
C13_Witness ==
    /\ event["t1"] = event["t2"]
    /\ event["t1"].data = "lunch"
    /\ pc["t1"] = "done" /\ pc["t2"] = "done"
    /\ CallOutcomes("t1") = CallOutcomes("t2")
    /\ Documents(trace["t1"]) # {}
    /\ Menus(trace["t2"]) # {}

(***************************************************************************)
(* C14.  Every menu prompt sent, for a start command or as the re-prompt   *)
(* of a callback, after whatever updates were handled before, carries the  *)
(* same text and exactly the two buttons Breakfast ("breakfast") and       *)
(* Lunch ("lunch"), in this order, in one row.                             *)
(***************************************************************************)
C14_SamePrompt ==
    \A t \in Tasks : \A i \in Menus(trace[t]) :
        /\ trace[t][i].a = "BREMOR menyu:"
        /\ trace[t][i].kb =
            << << [text |-> "Zavtrak", callback_data |-> "breakfast"],
                  [text |-> "Obed", callback_data |-> "lunch"] >> >>

\* The prompt of a start command and the re-prompt of a callback were both
\* sent.
C14_Witness ==
    /\ IsStart("t1") /\ pc["t1"] = "done"
    /\ IsCallback("t2") /\ pc["t2"] = "done"
    /\ \E i \in Menus(trace["t1"]) : trace["t1"][i].res = Ok
    /\ \E i \in Menus(trace["t2"]) : trace["t2"][i].res = Ok

(***************************************************************************)
(* C15.  When the acknowledgment of a callback fails, the handler makes no *)
(* reply (no text, no document, no prompt) and writes a log record for     *)
(* the failure.                                                            *)
(***************************************************************************)
C15_AckFailureLogged ==
    \A t \in Tasks : (IsCallback(t) /\ Finished(t)) =>
        LET tr == trace[t]
        IN  \A i \in DOMAIN tr : (tr[i].op = "answer" /\ tr[i].res # Ok) =>
                /\ Replies(tr) = {}
                /\ \E j \in Logs(tr) : j > i

(***************************************************************************)
(* C16.  The caption of a document reply is "Ot " followed by the 16       *)
(* characters of the formatted modification time, so it contains a given   *)
(* 16-character date and time exactly when that is what follows "Ot ".     *)
(*                                                                         *)
(* As claimed: for a file with modification time 2024-01-01T09:00:00 the   *)
(* caption contains "2024-01-01 09:00" (year-month-day hour:minute).       *)
(***************************************************************************)
C16_CaptionYearMonthDay ==
    \A t \in Tasks : \A d \in Documents(trace[t]) :
        local[t].modification_time = 1704099600 =>
            trace[t][d].b = "Ot 2024-01-01 09:00"

(***************************************************************************)
(* C16, amended.  The caption states the modification time as              *)
(* day.month.year hour:minute: "01.01.2024 09:00" for 2024-01-01T09:00:00, *)
(* "10.02.2024 09:00" for 2024-02-10T09:00:45 and "21.03.2024 09:01" for   *)
(* 2024-03-21T09:01:30.                                                    *)
(***************************************************************************)
C16_CaptionDayMonthYear ==
    \A t \in Tasks : \A d \in Documents(trace[t]) :
        /\ local[t].modification_time = 1704099600 =>
                trace[t][d].b = "Ot 01.01.2024 09:00"
        /\ local[t].modification_time = 1707555645 =>
                trace[t][d].b = "Ot 10.02.2024 09:00"
        /\ local[t].modification_time = 1711011690 =>
                trace[t][d].b = "Ot 21.03.2024 09:01"
        /\ local[t].modification_time \in {1704099600, 1707555645, 1711011690}

\* The document of a file last modified 2024-01-01T09:00:00 was sent.
C16_Witness ==
    \E t \in Tasks :
        /\ local[t].modification_time = 1704099600
        /\ \E d \in Documents(trace[t]) : trace[t][d].res = Ok

(***************************************************************************)
(* C17.  The keys on the buttons of every menu prompt sent are exactly the *)
(* keys the callback handler recognizes, "breakfast" and "lunch"; the      *)
(* handling of a callback that carries the key of a button of a prompt     *)
(* that was sent never takes the unknown-key branch.                       *)
(***************************************************************************)
\* The keys on the buttons of a keyboard.
ButtonKeys(kb) ==
    {kb[r][c].callback_data : <<r, c>> \in
        {<<r, c>> \in (DOMAIN kb) \X (1..2) : c \in DOMAIN kb[r]}}

\* The unknown-key branch was taken by the task.
TookUnknownBranch(t) ==
    \/ pc[t] = "unknown"
    \/ \E i \in DOMAIN trace[t] :
        \/ trace[t][i].a = "Chto-to poshlo ne tak!"
        \/ trace[t][i].op = "log.warning"
           /\ trace[t][i].a = "Nekorrektnyj callback_data: " \o event[t].data
                              \o " ot " \o ToString(event[t].uid)

C17_ButtonsRecognized ==
    \A t \in Tasks : \A i \in Menus(trace[t]) :
        LET keys == ButtonKeys(trace[t][i].kb)
        IN  /\ keys = {"breakfast", "lunch"}
            /\ keys = {k \in Keys \cup keys : file_map_get(k) # None}
            /\ \A u \in Tasks :
                (IsCallback(u) /\ event[u].data \in keys) =>
                    ~TookUnknownBranch(u)

\* A prompt went out for a start command while a callback with the key of
\* its second button was handled to the end.
C17_Witness ==
    /\ IsStart("t1")
    /\ \E i \in Menus(trace["t1"]) : trace["t1"][i].res = Ok
    /\ IsCallback("t2") /\ event["t2"].data = "lunch" /\ Finished("t2")
    /\ AckReturned("t2")

(***************************************************************************)
(* C18.  A callback whose document reply was delivered sends no text       *)
(* reply, so never a failure text of an except clause: a failure of the    *)
(* re-prompt that follows is logged, once, and nothing is sent after it;   *)
(* the handler returns normally.                                           *)
(***************************************************************************)
C18_NoFailureTextAfterDocument ==
    \A t \in Tasks :
        (IsCallback(t) /\ \E d \in Documents(trace[t]) : trace[t][d].res = Ok) =>
        LET tr == trace[t]
        IN  /\ Texts(tr) = {}
            /\ pc[t] # "crashed"
            /\ pc[t] # "except"
            /\ \A m \in Menus(tr) : tr[m].res # Ok =>
                /\ Cardinality({j \in Logs(tr) : j > m}) = 1
                /\ \A j \in Replies(tr) : j <= m

\* The document was delivered and the re-prompt after it failed.
C18_Witness ==
    \E t \in Tasks :
        /\ IsCallback(t) /\ pc[t] = "done"
        /\ \E d \in Documents(trace[t]) : trace[t][d].res = Ok
        /\ \E m \in Menus(trace[t]) : trace[t][m].res # Ok

(***************************************************************************)
(* C19.  Every handler that was started comes to its end, and makes a      *)
(* bounded number of outward calls on the way, none of them repeated: a    *)
(* start handler at most one reply_text and nothing else; a callback       *)
(* handler one query.answer(), first, then at most two reply_text (text    *)
(* or prompt) and at most one reply_document.                              *)
(***************************************************************************)
Running(t) == pc[t] \notin {"idle", "done", "crashed"}

Answers(tr) == {i \in DOMAIN tr : tr[i].op = "answer"}

C19_CallBounds ==
    \A t \in Tasks :
        LET tr == trace[t]
        IN  /\ IsStart(t) =>
                /\ Cardinality(Texts(tr) \cup Menus(tr)) <= 1
                /\ Documents(tr) = {}
                /\ Answers(tr) = {}
            /\ IsCallback(t) =>
                /\ Cardinality(Answers(tr)) <= 1
                /\ tr # <<>> => tr[1].op = "answer"
                /\ Finished(t) => Cardinality(Answers(tr)) = 1
                /\ Cardinality(Texts(tr) \cup Menus(tr)) <= 2
                /\ Cardinality(Documents(tr)) <= 1

C19_Terminates ==
    /\ []C19_CallBounds
    /\ \A t \in Tasks : Running(t) ~> Finished(t)

\* A callback handler came to its end after one acknowledgment and two
\* reply_text calls.
C19_Witness ==
    \E t \in Tasks :
        /\ IsCallback(t) /\ Finished(t)
        /\ Cardinality(Answers(trace[t])) = 1
        /\ Cardinality(Texts(trace[t]) \cup Menus(trace[t])) = 2

====
